---- MODULE Spec2Model ----
(***************************************************************************)
(* Model of quetz/config.py: the configuration file locator                *)
(* (Config.find_file), the loader (Config.init / Config._read_config /     *)
(* Settings), the process-wide registry (Config._instances, Config.__new__)*)
(* and the three consumers get_package_store, get_logger_config and        *)
(* get_plugin_manager.                                                     *)
(*                                                                         *)
(* The file system and the process environment are fixed for the life of   *)
(* the process: Init draws them, the actions only read them.               *)
(***************************************************************************)
EXTENDS Integers, Sequences, FiniteSets, TLC

VARIABLES
    files,      \* the absolute paths that are regular files on disk
    content,    \* content[p]: what the file at absolute path p holds
    environ,    \* os.environ: variable name -> value (None when unset)
    instances,  \* Config._instances: key -> identity of the cached wrapper
    objs,       \* the Config wrappers built so far: identity -> [path, config]
    hist,       \* hist[a]: identities Config(a) has returned so far
    out,        \* what the last call did and gave back
    pc,         \* pc[t]: where thread t stands inside Config.__new__
    loc         \* loc[t]: thread t's locals inside Config.__new__

vars == <<files, content, environ, instances, objs, hist, out, pc, loc>>

----------------------------------------------------------------------------
(* Values *)

\* Python's None (a missing argument, an unset variable, find_file's "nothing")
None == "<None>"

\* bool(s) of an optional string: None and "" are falsy
Truthy(s) == s \notin {None, ""}

SiteFile == "/etc/xdg/quetz/config.toml"
UserFile == "/home/u/.config/quetz/config.toml"
FileA == "/cwd/a.toml"
FileB == "/cwd/b.toml"
RelA == "a.toml"

\* every absolute path the model knows
AbsFiles == {SiteFile, UserFile, FileA, FileB}

\* the deployment_config arguments the callers pass
Args == {None, "", RelA, FileA, FileB}

\* Config._config_files
ConfigFiles == <<SiteFile, UserFile>>

\* os.path.abspath: a relative path is joined to the working directory
AbsPath(p) == IF p = RelA THEN FileA ELSE p

\* os.path.isfile
IsFile(p) == p # "" /\ AbsPath(p) \in files

\* os.getenv
GetEnv(name) == environ[name]

----------------------------------------------------------------------------
(* Config.find_file *)

\* the first element of sequence s that is a file, None when there is none
FirstFile(s) ==
    LET ex == SelectSeq(s, IsFile)
    IN  IF ex = <<>> THEN None ELSE Head(ex)

\* the candidate list with the deployment files put before the fixed ones
CandidatesDeploymentFirst(deployment_config) ==
    LET config_file_env == GetEnv("QUETZ_CONFIG_FILE")
        Keep(f) == Truthy(f) /\ IsFile(f)
    IN  SelectSeq(<<deployment_config, config_file_env>>, Keep) \o ConfigFiles

\* cls._config_files + deployment_config_files
Candidates(deployment_config) ==
    LET config_file_env == GetEnv("QUETZ_CONFIG_FILE")
        Keep(f) == Truthy(f) /\ IsFile(f)
    IN  ConfigFiles \o SelectSeq(<<deployment_config, config_file_env>>, Keep)

find_file(deployment_config) == FirstFile(Candidates(deployment_config))

\* lines 273-277: abspath of the located file, "" when find_file gave None
PathOf(deployment_config) ==
    LET f == find_file(deployment_config)
    IN  IF f = None THEN "" ELSE AbsPath(f)

----------------------------------------------------------------------------
(* Settings and the loader *)

\* an Optional section left at its default None
Absent == [present |-> FALSE]

\* bool() of a section value: None is falsy, a pydantic model instance is truthy
SectionTruthy(v) == v.present

\* a document with no section at all (Settings() called without arguments)
EmptyDoc ==
    [ toml_ok |-> TRUE, sections |-> {}, frontend_dir |-> None,
      log_level |-> None, log_file |-> None, enabled |-> <<>> ]

\* the database_url a file's [sqlalchemy] section holds: one value per file
DatabaseUrlIn(path) == <<"database_url", path>>

\* pydantic BaseSettings, one field: the init keyword argument, else the
\* field's environment variable, else the declared default
FieldValue(initValue, envValue, default) ==
    IF initValue # None THEN initValue
    ELSE IF envValue # None THEN envValue
    ELSE default

\* does section sec reach Settings: from the file's table or, for the two
\* modelled complex variables, from the JSON in QUETZSQLALCHEMY / QUETZSESSION
Supplied(doc, sec) ==
    \/ sec \in doc.sections
    \/ sec = "sqlalchemy" /\ GetEnv("QUETZSQLALCHEMY") # None
    \/ sec = "session" /\ GetEnv("QUETZSESSION") # None

\* an Optional[...] section: the model instance when supplied, else None
OptionalSection(doc, sec) ==
    IF Supplied(doc, sec) THEN [present |-> TRUE] ELSE Absent

\* Settings(**doc): the validated settings tree built from document doc read
\* from path ("" when there is no file)
Settings(doc, path) ==
    IF ~Supplied(doc, "sqlalchemy") \/ ~Supplied(doc, "session")
    THEN [ok |-> FALSE, raised |-> "ValidationError"]
    ELSE [ok |-> TRUE, raised |-> "none", config |->
           [ general |-> [ present |-> TRUE,
                           frontend_dir |->
                               FieldValue(doc.frontend_dir,
                                          GetEnv("GENERALFRONTEND_DIR"), "") ],
             cors |-> Absent,
             github |-> Absent,
             gitlab |-> Absent,
             azuread |-> Absent,
             sqlalchemy |-> [ present |-> TRUE,
                              database_url |->
                                  IF "sqlalchemy" \in doc.sections
                                  THEN DatabaseUrlIn(path)
                                  ELSE <<"database_url", "QUETZSQLALCHEMY">> ],
             session |-> [present |-> TRUE],
             local_store |-> [ present |-> TRUE,
                               redirect_enabled |-> FALSE,
                               redirect_endpoint |-> "/files",
                               redirect_secret |-> "",
                               redirect_expiration |-> 3600 ],
             s3 |-> OptionalSection(doc, "s3"),
             azure_blob |-> OptionalSection(doc, "azure_blob"),
             gcs |-> OptionalSection(doc, "gcs"),
             google |-> Absent,
             logging |->
                 IF "logging" \in doc.sections
                 THEN [ present |-> TRUE,
                        level |-> FieldValue(doc.log_level, None, "INFO"),
                        file |-> FieldValue(doc.log_file, None, "") ]
                 ELSE Absent,
             users |-> Absent,
             worker |-> Absent,
             plugins |-> [ present |-> TRUE,
                           enabled |-> IF "plugins" \in doc.sections
                                       THEN doc.enabled ELSE <<>> ],
             mirroring |-> [present |-> TRUE],
             quotas |-> Absent,
             profiling |-> Absent ] ]

\* Config._read_config: parse the file, build Settings from it
read_config(filename) ==
    IF ~content[filename].toml_ok
    THEN [ok |-> FALSE, raised |-> "ConfigError"]
    ELSE Settings(content[filename], filename)

\* Config.init: self.config = self._read_config(path) if path else Settings()
init(path) == IF path # "" THEN read_config(path) ELSE Settings(EmptyDoc, "")

----------------------------------------------------------------------------
(* Config.__new__ and the registry *)

\* line 270: not deployment_config and None in cls._instances
ShortCircuit(inst, deployment_config) ==
    ~Truthy(deployment_config) /\ None \in DOMAIN inst

\* a lookup that never finds the path
CachedNever(inst, path) == FALSE

\* line 279, negated: path in cls._instances
Cached(inst, path) == path \in DOMAIN inst

Put(f, k, v) == [x \in DOMAIN f \cup {k} |-> IF x = k THEN v ELSE f[x]]

\* the wrapper stored under its path only, never under None
AfterInitPathOnly(inst, path, deployment_config, ok, id) ==
    IF ~ok THEN inst ELSE Put(inst, path, id)

\* the registry written before init has succeeded
AfterInitStoreFirst(inst, path, deployment_config, ok, id) ==
    LET byPath == Put(inst, path, id)
    IN  IF ~Truthy(deployment_config) THEN Put(byPath, None, id) ELSE byPath

\* lines 281-286: init raised and nothing is stored, or the wrapper is stored
\* under path, and under None too when no deployment_config was given
AfterInit(inst, path, deployment_config, ok, id) ==
    IF ~ok THEN inst
    ELSE LET byPath == Put(inst, path, id)
         IN  IF ~Truthy(deployment_config) THEN Put(byPath, None, id)
             ELSE byPath

NoRes == [kind |-> "none"]
NotRun == "<not run>"

\* what a call to Config(deployment_config) leaves in out
ConfigOut(arg, located, key, loaded, raised, ret) ==
    [ op |-> "Config", arg |-> arg, located |-> located, key |-> key,
      loaded |-> loaded, raised |-> raised, ret |-> ret, res |-> NoRes ]

Record(h, arg, id) == [h EXCEPT ![arg] = @ \cup {id}]

\* Config.__new__ run from registry inst and heap heap: the registry and the
\* heap it leaves, what it located and loaded, and the wrapper it returns
\* (ret) or the error it raises
New(inst, heap, arg) ==
    IF ShortCircuit(inst, arg)
    THEN [ inst |-> inst, objs |-> heap, located |-> NotRun, key |-> None,
           loaded |-> FALSE, raised |-> "none", ret |-> inst[None] ]
    ELSE LET located == find_file(arg)
             path == PathOf(arg)
         IN  IF Cached(inst, path)
             THEN [ inst |-> inst, objs |-> heap, located |-> located,
                    key |-> path, loaded |-> FALSE, raised |-> "none",
                    ret |-> inst[path] ]
             ELSE LET load == init(path)
                      id == Cardinality(DOMAIN heap) + 1
                      stored == AfterInit(inst, path, arg, load.ok, id)
                  IN  IF load.ok
                      THEN [ inst |-> stored,
                             objs |-> Put(heap, id, [ path |-> path,
                                                      config |-> load.config ]),
                             located |-> located, key |-> path,
                             loaded |-> TRUE, raised |-> "none",
                             ret |-> stored[path] ]
                      ELSE [ inst |-> stored, objs |-> heap,
                             located |-> located, key |-> path,
                             loaded |-> TRUE, raised |-> load.raised,
                             ret |-> 0 ]

\* no thread is inside Config.__new__
Quiet == \A t \in DOMAIN pc : pc[t] = "idle"

\* Config(deployment_config), the whole of __new__ in one step
Resolve(arg) ==
    /\ Quiet
    /\ LET r == New(instances, objs, arg)
       IN  /\ instances' = r.inst
           /\ objs' = r.objs
           /\ hist' = IF r.raised = "none" THEN Record(hist, arg, r.ret) ELSE hist
           /\ out' = ConfigOut(arg, r.located, r.key, r.loaded, r.raised, r.ret)
    /\ UNCHANGED <<files, content, environ, pc, loc>>

----------------------------------------------------------------------------
(* Config.__new__ statement by statement, as concurrent threads run it: the
   code takes no lock, so another thread may run between any two statements *)

\* the locals of a thread that is not inside Config.__new__
NoLocals == [arg |-> None, located |-> NotRun, path |-> "", config |-> 0]

SetPc(t, label) == [pc EXCEPT ![t] = label]

\* lines 270-271: the call starts; without a deployment_config a wrapper
\* stored under None is returned at once
Begin(t, arg) ==
    /\ pc[t] = "idle"
    /\ IF ShortCircuit(instances, arg)
       THEN /\ out' = ConfigOut(arg, NotRun, None, FALSE, "none", instances[None])
            /\ hist' = Record(hist, arg, instances[None])
            /\ UNCHANGED <<pc, loc>>
       ELSE /\ pc' = SetPc(t, "find")
            /\ loc' = [loc EXCEPT ![t] = [arg |-> arg, located |-> NotRun,
                                          path |-> "", config |-> 0]]
            /\ UNCHANGED <<out, hist>>
    /\ UNCHANGED <<files, content, environ, instances, objs>>

\* lines 273-277: path = os.path.abspath(cls.find_file(deployment_config))
Find(t) ==
    /\ pc[t] = "find"
    /\ loc' = [loc EXCEPT ![t].located = find_file(loc[t].arg),
                          ![t].path = PathOf(loc[t].arg)]
    /\ pc' = SetPc(t, "check")
    /\ UNCHANGED <<files, content, environ, instances, objs, hist, out>>

\* line 279: if path not in cls._instances
Check(t) ==
    /\ pc[t] = "check"
    /\ pc' = SetPc(t, IF Cached(instances, loc[t].path) THEN "ret" ELSE "init")
    /\ UNCHANGED <<files, content, environ, instances, objs, hist, out, loc>>

\* lines 280-281: config = super().__new__(cls); config.init(path)
Construct(t) ==
    /\ pc[t] = "init"
    /\ LET load == init(loc[t].path)
           id == Cardinality(DOMAIN objs) + 1
       IN  IF load.ok
           THEN /\ objs' = Put(objs, id, [ path |-> loc[t].path,
                                           config |-> load.config ])
                /\ loc' = [loc EXCEPT ![t].config = id]
                /\ pc' = SetPc(t, "store")
                /\ UNCHANGED out
           ELSE /\ out' = ConfigOut(loc[t].arg, loc[t].located, loc[t].path,
                                    TRUE, load.raised, 0)
                /\ pc' = SetPc(t, "idle")
                /\ loc' = [loc EXCEPT ![t] = NoLocals]
                /\ UNCHANGED objs
    /\ UNCHANGED <<files, content, environ, instances, hist>>

\* line 282: cls._instances[path] = config
Store(t) ==
    /\ pc[t] = "store"
    /\ instances' = Put(instances, loc[t].path, loc[t].config)
    /\ pc' = SetPc(t, IF Truthy(loc[t].arg) THEN "ret" ELSE "store_none")
    /\ UNCHANGED <<files, content, environ, objs, hist, out, loc>>

\* lines 285-286: cls._instances[None] = config
StoreNone(t) ==
    /\ pc[t] = "store_none"
    /\ instances' = Put(instances, None, loc[t].config)
    /\ pc' = SetPc(t, "ret")
    /\ UNCHANGED <<files, content, environ, objs, hist, out, loc>>

\* line 287: return cls._instances[path]
Return(t) ==
    /\ pc[t] = "ret"
    /\ out' = ConfigOut(loc[t].arg, loc[t].located, loc[t].path,
                        loc[t].config # 0, "none", instances[loc[t].path])
    /\ hist' = Record(hist, loc[t].arg, instances[loc[t].path])
    /\ pc' = SetPc(t, "idle")
    /\ loc' = [loc EXCEPT ![t] = NoLocals]
    /\ UNCHANGED <<files, content, environ, instances, objs>>

----------------------------------------------------------------------------
(* The consumers of a wrapper *)

\* getattr on the Settings instance: its attributes are its fields
HasAttr(settings, name) == name \in DOMAIN settings

\* Config.__getattr__: hasattr(config, name) on a wrapper (0 stands for None)
ConfigHasAttr(w, name) == w # 0 /\ HasAttr(objs[w].config, name)

ConfigGetAttr(w, name) == objs[w].config[name]

AttributeError == [kind |-> "raised", raised |-> "AttributeError"]

\* one branch of get_package_store: the store built from the wrapper's
\* flattened attributes, the first of which is attr
StoreFrom(settings, kind, attr) ==
    IF HasAttr(settings, attr)
    THEN [kind |-> kind, raised |-> "none"]
    ELSE AttributeError

\* Config.get_package_store
get_package_store(settings) ==
    IF ~HasAttr(settings, "get") THEN AttributeError
    ELSE IF SectionTruthy(settings.s3)
         THEN StoreFrom(settings, "S3Store", "s3_access_key")
    ELSE IF SectionTruthy(settings.azure_blob)
         THEN StoreFrom(settings, "AzureBlobStore", "azure_blob_account_name")
    ELSE IF SectionTruthy(settings.gcs)
         THEN StoreFrom(settings, "GoogleCloudStorageStore", "gcs_project")
    ELSE StoreFrom(settings, "LocalStore", "local_store_redirect_enabled")

\* Config.configured_section: bool(getattr(self.config, section))
configured_section(settings, section) == SectionTruthy(settings[section])

\* str.upper on the level names the model uses
Upper(s) ==
    IF s = "debug" THEN "DEBUG"
    ELSE IF s = "error" THEN "ERROR"
    ELSE s

\* get_logger_config(config, loggers); w is the wrapper, 0 for config=None
get_logger_config(w, loggers) ==
    LET level0 == IF ConfigHasAttr(w, "logging_level")
                  THEN ConfigGetAttr(w, "logging_level") ELSE "INFO"
        filename == IF ConfigHasAttr(w, "logging_file")
                    THEN ConfigGetAttr(w, "logging_file") ELSE None
        level1 == IF GetEnv("QUETZ_LOG_LEVEL") # None
                  THEN GetEnv("QUETZ_LOG_LEVEL") ELSE level0
        log_level == Upper(level1)
        handlers == IF Truthy(filename) THEN <<"console", "file">>
                    ELSE <<"console">>
    IN  [ kind |-> "LOG_CONFIG", raised |-> "none",
          handlers |->
              [ console |-> [level |-> log_level],
                file |-> [ level |-> log_level,
                           filename |-> IF Truthy(filename) THEN filename
                                        ELSE "/cwd/quetz.log" ] ],
          loggers |-> [ k \in {loggers[i] : i \in DOMAIN loggers} |->
                          [level |-> log_level, handlers |-> handlers] ] ]

\* the plugins installed under the "quetz" entry point group
Discoverable == {"p1", "p2"}

SeqRange(q) == {q[i] : i \in DOMAIN q}

\* get_plugin_manager, after its config has been resolved
get_plugin_manager(settings) ==
    IF configured_section(settings, "plugins")
    THEN IF HasAttr(settings, "plugins_enabled")
         THEN [ kind |-> "PluginManager", raised |-> "none",
                loaded |-> SeqRange(settings["plugins_enabled"]) \cap Discoverable ]
         ELSE AttributeError
    ELSE [kind |-> "PluginManager", raised |-> "none", loaded |-> Discoverable]

Called(op, w, raised, res) ==
    [ op |-> op, arg |-> None, located |-> NotRun, key |-> None,
      loaded |-> FALSE, raised |-> raised, ret |-> w, res |-> res ]

\* config.get_package_store() on wrapper w
GetPackageStore(w) ==
    /\ Quiet
    /\ out' = Called("get_package_store", w, "none",
                     get_package_store(objs[w].config))
    /\ UNCHANGED <<files, content, environ, instances, objs, hist, pc, loc>>

\* get_logger_config(config, loggers) on wrapper w (0: config is None)
GetLoggerConfig(w, loggers) ==
    /\ Quiet
    /\ out' = Called("get_logger_config", w, "none", get_logger_config(w, loggers))
    /\ UNCHANGED <<files, content, environ, instances, objs, hist, pc, loc>>

\* get_plugin_manager(config): with no config it resolves Config() first
GetPluginManager(w) ==
    /\ Quiet
    /\ IF w # 0
       THEN /\ out' = Called("get_plugin_manager", w, "none",
                             get_plugin_manager(objs[w].config))
            /\ UNCHANGED <<instances, objs, hist>>
       ELSE LET r == New(instances, objs, None)
            IN  /\ instances' = r.inst
                /\ objs' = r.objs
                /\ hist' = IF r.raised = "none" THEN Record(hist, None, r.ret)
                           ELSE hist
                /\ out' = IF r.raised = "none"
                          THEN Called("get_plugin_manager", r.ret, "none",
                                      get_plugin_manager(r.objs[r.ret].config))
                          ELSE Called("get_plugin_manager", 0, r.raised, NoRes)
    /\ UNCHANGED <<files, content, environ, pc, loc>>

----------------------------------------------------------------------------
(* Initial states *)

\* the number of threads calling Config concurrently
NThreads == 2

Threads == 1..NThreads

EnvNames ==
    { "QUETZ_CONFIG_FILE", "QUETZ_LOG_LEVEL", "GENERALFRONTEND_DIR",
      "QUETZSQLALCHEMY", "QUETZSESSION" }

\* a file that holds only the two mandatory sections
MinimalDoc ==
    [ toml_ok |-> TRUE, sections |-> {"sqlalchemy", "session"},
      frontend_dir |-> None, log_level |-> None, log_file |-> None,
      enabled |-> <<>> ]

\* a well-formed file with no [sqlalchemy] and no [session]
NoRequiredDoc == [MinimalDoc EXCEPT !.sections = {}]

\* a file that is not valid TOML
MalformedDoc == [EmptyDoc EXCEPT !.toml_ok = FALSE]

BasicDocs == {MinimalDoc, NoRequiredDoc, MalformedDoc}

\* the contents of a disk that holds the files fs, each with a document of docs
Contents(fs, docs) ==
    { [p \in AbsFiles |-> IF p \in fs THEN d[p] ELSE EmptyDoc] :
        d \in [fs -> docs] }

\* the registry is empty when the class is created (line 267)
InitProcess ==
    /\ instances = << >>
    /\ objs = << >>
    /\ hist = [a \in Args |-> {}]
    /\ out = [ op |-> "none", arg |-> None, located |-> NotRun, key |-> None,
               loaded |-> FALSE, raised |-> "none", ret |-> 0, res |-> NoRes ]
    /\ pc = [t \in Threads |-> "idle"]
    /\ loc = [t \in Threads |-> NoLocals]

\* any set of files, each well-formed, incomplete or malformed; the registry
\* variables QUETZ_CONFIG_FILE and the two JSON section variables set or not
InitRegistryEnv ==
    /\ files \in SUBSET AbsFiles
    /\ content \in Contents(files, BasicDocs)
    /\ \E cf \in {None, FileA, FileB}, js \in {None, "{...}"} :
          environ = [n \in EnvNames |->
                        IF n = "QUETZ_CONFIG_FILE" THEN cf
                        ELSE IF n \in {"QUETZSQLALCHEMY", "QUETZSESSION"} THEN js
                        ELSE None]

Init == InitRegistryEnv /\ InitProcess

Next == \E arg \in Args : Resolve(arg)

Spec == Init /\ [][Next]_vars

\* one deployment file, there or not, well-formed, incomplete or malformed,
\* with no site-level and no user-level file
InitThreadsEnv ==
    /\ files \in SUBSET {FileB}
    /\ content \in Contents(files, BasicDocs)
    /\ \E cf \in {None, FileB}, js \in {None, "{...}"} :
          environ = [n \in EnvNames |->
                        IF n = "QUETZ_CONFIG_FILE" THEN cf
                        ELSE IF n \in {"QUETZSQLALCHEMY", "QUETZSESSION"} THEN js
                        ELSE None]

\* the arguments the concurrent callers pass
ThreadArgs == {None, FileB}

InitThreads == InitThreadsEnv /\ InitProcess

NextThreads ==
    \E t \in Threads :
        \/ \E arg \in ThreadArgs : Begin(t, arg)
        \/ Find(t)
        \/ Check(t)
        \/ Construct(t)
        \/ Store(t)
        \/ StoreNone(t)
        \/ Return(t)

\* Config called from NThreads threads at once
SpecThreads == InitThreads /\ [][NextThreads]_vars

\* the files the consumers are run on: the two mandatory sections, any of
\* the three object store sections, [logging] and [plugins] there or not, and
\* general.frontend_dir set or not
SettingsDocs ==
    { [ toml_ok |-> TRUE,
        sections |-> {"sqlalchemy", "session"} \cup stores \cup lg \cup pl,
        frontend_dir |-> fd,
        log_level |-> IF lg = {} THEN None ELSE lv[1],
        log_file |-> IF lg = {} THEN None ELSE lv[2],
        enabled |-> IF pl = {} THEN <<>> ELSE en ] :
      stores \in SUBSET {"s3", "azure_blob", "gcs"},
      lg \in SUBSET {"logging"},
      lv \in {<<"WARNING", None>>, <<"debug", "/var/log/quetz.log">>},
      pl \in SUBSET {"plugins"},
      en \in {<<>>, <<"p1">>},
      fd \in {None, "/file"} }

\* no file at all, or one deployment file; any of the level override, the
\* frontend_dir variable and the two JSON section variables set or not
InitSettingsEnv ==
    /\ files \in SUBSET {FileA}
    /\ content \in Contents(files, SettingsDocs)
    /\ \E ll \in {None, "DEBUG", "error"}, fd \in {None, "/env"},
          js \in {None, "{...}"} :
          environ = [n \in EnvNames |->
                        IF n = "QUETZ_CONFIG_FILE" THEN None
                        ELSE IF n = "QUETZ_LOG_LEVEL" THEN ll
                        ELSE IF n = "GENERALFRONTEND_DIR" THEN fd
                        ELSE js]

InitSettings == InitSettingsEnv /\ InitProcess

\* the loggers arguments the callers pass
LoggerArgs == {<<"quetz">>, <<"quetz", "alembic">>}

NextSettings ==
    \/ \E arg \in {None, FileA} : Resolve(arg)
    \/ \E w \in DOMAIN objs : GetPackageStore(w)
    \/ \E w \in DOMAIN objs \cup {0}, loggers \in LoggerArgs :
          GetLoggerConfig(w, loggers)
    \/ \E w \in DOMAIN objs \cup {0} : GetPluginManager(w)

\* one process resolving its configuration and deriving from it
SpecSettings == InitSettings /\ [][NextSettings]_vars

----------------------------------------------------------------------------
(* The registry *)

\* the callers that gave no explicit path are one caller: None and ""
SameCall(a) == IF Truthy(a) THEN {a} ELSE {x \in Args : ~Truthy(x)}

Returned(a) == UNION {hist[x] : x \in SameCall(a)}

\* C1: two resolutions made with the same explicit path, or two made with no
\* explicit path, return the identical wrapper instance, and a call that
\* follows a successful one for its argument constructs nothing: the call
\* that did construct and load is the only one to have returned for it.
C1_SameInstance ==
    /\ \A a \in Args : Cardinality(Returned(a)) <= 1
    /\ (out.op = "Config" /\ out.raised = "none") =>
          /\ Returned(out.arg) = {out.ret}
          /\ out.ret \in DOMAIN objs
          /\ out.loaded => out.ret = Cardinality(DOMAIN objs)

\* C1 witness: with QUETZ_CONFIG_FILE unset, Config(FileB) found FileB already
\* in the registry, where only an earlier Config(FileB) can have put it
C1_Witness ==
    /\ out.op = "Config" /\ out.arg = FileB /\ out.key = FileB
    /\ ~out.loaded /\ out.raised = "none"
    /\ environ["QUETZ_CONFIG_FILE"] = None

\* C2: when threads run Config.__new__ concurrently for a path not yet in the
\* registry, exactly one wrapper is constructed for that path and every
\* thread returns that one instance.
C2_OneWrapperPerPath ==
    /\ \A i, j \in DOMAIN objs : objs[i].path = objs[j].path => i = j
    /\ \A a \in Args : Cardinality(Returned(a)) <= 1

\* C3: a resolution whose load fails raises the error, returns no wrapper and
\* leaves the registry and the heap as they were (nothing under the path key,
\* nothing under None); the next resolution of the same argument loads again.
C3_FailureLeavesRegistry ==
    /\ [][ (out'.op = "Config" /\ out'.raised # "none") =>
              /\ instances' = instances
              /\ objs' = objs
              /\ hist' = hist
              /\ out'.ret = 0
              /\ out'.key \notin DOMAIN instances'
              /\ (~Truthy(out'.arg) => None \notin DOMAIN instances') ]_vars
    /\ [][ ( /\ out.op = "Config" /\ out.raised # "none"
             /\ out'.op = "Config" /\ out'.arg = out.arg ) =>
              out'.loaded ]_vars

\* C3 witness: a load failed in a process whose registry already held a wrapper
C3_Witness ==
    /\ out.op = "Config" /\ out.raised \in {"ConfigError", "ValidationError"}
    /\ DOMAIN instances # {}

\* the claimed result of find_file: site, user, explicit, environment
FirstInClaimedOrder(arg) ==
    IF IsFile(SiteFile) THEN SiteFile
    ELSE IF IsFile(UserFile) THEN UserFile
    ELSE IF Truthy(arg) /\ IsFile(arg) THEN arg
    ELSE IF Truthy(environ["QUETZ_CONFIG_FILE"])
            /\ IsFile(environ["QUETZ_CONFIG_FILE"])
         THEN environ["QUETZ_CONFIG_FILE"]
    ELSE None

C6_DistinctFiles ==
    \A p, q \in Args :
        (Truthy(p) /\ Truthy(q) /\ IsFile(p) /\ IsFile(q)
            /\ AbsPath(p) # AbsPath(q)) =>
            \A i \in hist[p], j \in hist[q] :
                /\ i # j
                /\ objs[i].path = AbsPath(p)
                /\ objs[j].path = AbsPath(q)

----------------------------------------------------------------------------
(* The settings and their consumers *)

\* the document wrapper i was loaded from
DocOf(i) == IF objs[i].path = "" THEN EmptyDoc ELSE content[objs[i].path]

\* C5: for a field the precedence is environment variable > file value >
\* built-in default (general.frontend_dir, read from GENERALFRONTEND_DIR).
C5_EnvOverFile ==
    \A i \in DOMAIN objs :
        objs[i].config.general.frontend_dir =
            IF environ["GENERALFRONTEND_DIR"] # None
            THEN environ["GENERALFRONTEND_DIR"]
            ELSE IF DocOf(i).frontend_dir # None THEN DocOf(i).frontend_dir
            ELSE ""

\* C7: get_package_store produces exactly one store descriptor, chosen by the
\* precedence s3, azure_blob, gcs, local.
C7_StorePrecedence ==
    out.op = "get_package_store" =>
        LET sec == DocOf(out.ret).sections
        IN  /\ out.res.raised = "none"
            /\ out.res.kind =
                  IF "s3" \in sec THEN "S3Store"
                  ELSE IF "azure_blob" \in sec THEN "AzureBlobStore"
                  ELSE IF "gcs" \in sec THEN "GoogleCloudStorageStore"
                  ELSE "LocalStore"

\* the level the claim expects for a call on wrapper w (0: no config)
ClaimedLevel(w) ==
    IF environ["QUETZ_LOG_LEVEL"] # None THEN Upper(environ["QUETZ_LOG_LEVEL"])
    ELSE IF w # 0 /\ "logging" \in DocOf(w).sections
         THEN Upper(objs[w].config.logging.level)
    ELSE "INFO"

\* C8: the effective log level is QUETZ_LOG_LEVEL when set, else the logging
\* section's level when the section is present, else INFO; the console
\* handler and every logger carry it.
C8_EffectiveLevel ==
    out.op = "get_logger_config" =>
        /\ out.res.handlers.console.level = ClaimedLevel(out.ret)
        /\ \A k \in DOMAIN out.res.loggers :
              out.res.loggers[k].level = ClaimedLevel(out.ret)

\* a log file path is configured for wrapper w
FileConfigured(w) ==
    /\ w # 0
    /\ "logging" \in DocOf(w).sections
    /\ Truthy(objs[w].config.logging.file)

\* C9: the structure declares a file handler only when a log file path is
\* configured, and every logger uses exactly the enabled handlers: console,
\* and file when a path is configured.
C9_FileHandlerOnlyWithPath ==
    out.op = "get_logger_config" =>
        /\ "console" \in DOMAIN out.res.handlers
        /\ "file" \in DOMAIN out.res.handlers => FileConfigured(out.ret)
        /\ \A k \in DOMAIN out.res.loggers :
              out.res.loggers[k].handlers =
                  IF FileConfigured(out.ret) THEN <<"console", "file">>
                  ELSE <<"console">>

\* C10: get_plugin_manager loads only the enabled plugins when the plugins
\* section was supplied, and every discoverable plugin when it was not.
C10_PluginSelection ==
    (out.op = "get_plugin_manager" /\ out.raised = "none") =>
        /\ out.res.raised = "none"
        /\ out.res.loaded =
              IF "plugins" \in DocOf(out.ret).sections
                 /\ DocOf(out.ret).enabled # <<>>
              THEN SeqRange(DocOf(out.ret).enabled) \cap Discoverable
              ELSE Discoverable

----------------------------------------------------------------------------
(* The default key *)

\* the last call was a successful Config() with no explicit path
DefaultResolved ==
    out.op = "Config" /\ ~Truthy(out.arg) /\ out.raised = "none"

\* C11 as stated: after any successful resolution with no explicit path the
\* registry holds that wrapper under the None key, whatever preceded it.
C11_DefaultKeyAlways ==
    DefaultResolved => (None \in DOMAIN instances /\ instances[None] = out.ret)

\* once None is in the registry its entry stays, and a resolution with no
\* explicit path returns it without running find_file or loading
DefaultKeyKept ==
    None \in DOMAIN instances =>
        /\ None \in DOMAIN instances'
        /\ instances'[None] = instances[None]
        /\ (out'.op = "Config" /\ ~Truthy(out'.arg)) =>
              /\ out'.located = NotRun
              /\ ~out'.loaded
              /\ out'.raised = "none"
              /\ out'.ret = instances[None]

\* a resolution with no explicit path that found its path key cached stores
\* nothing
CachedDefaultStoresNothing ==
    ( /\ out'.op = "Config" /\ ~Truthy(out'.arg) /\ out'.raised = "none"
      /\ out'.located # NotRun /\ ~out'.loaded ) => instances' = instances

\* C11 amended: a resolution with no explicit path that constructed its
\* wrapper leaves it under None; the None entry never changes afterwards; and
\* while None is in the registry every resolution with no explicit path
\* returns that wrapper without running find_file or loading. A resolution
\* with no explicit path that found its path key already cached stores
\* nothing under None.
C11_DefaultKeyWhenConstructed ==
    /\ []( (DefaultResolved /\ out.loaded) =>
              (None \in DOMAIN instances /\ instances[None] = out.ret) )
    /\ [][DefaultKeyKept]_vars
    /\ [][CachedDefaultStoresNothing]_vars

\* C11 witness: Config() short-circuited on the None key in a registry that
\* also holds a wrapper built by an explicit-path resolution
C11_Witness ==
    /\ DefaultResolved /\ out.located = NotRun
    /\ out.ret = instances[None]
    /\ \E k \in DOMAIN instances : k # None /\ instances[k] # instances[None]

====
